---- MODULE Spec2Model ----
(***************************************************************************)
(* All-pairs shortest path lengths over an undirected weighted edge list   *)
(* (src/src/main.rs, src/src/pathfinder.rs).  One run of main(): read the  *)
(* edge list, build the graph of the chosen algorithm, run the all-pairs   *)
(* driver, write the result rows.                                          *)
(*                                                                         *)
(* An f32 is represented by the integer number of halves it holds          *)
(* (2.5 is 5, -1.5 is -3), so that the cast to usize is a real truncation. *)
(***************************************************************************)
EXTENDS Integers, Sequences, FiniteSets

VARIABLES
    algorithm,    \* Args.algorithm
    readable,     \* whether csv::Reader::from_path(input) succeeds
    file,         \* the rows of the input file, in order
    pc,           \* position of main()
    nodes,        \* Vec<WeightedNodes> returned by read_weighted_nodes
    i,            \* next element of the edge loop of the graph builder
    successors,   \* PathfinderGraph.successors
    num_nodes,    \* PathfinderGraph.num_nodes
    input_graph,  \* fast_paths::InputGraph
    fast_graph,   \* fast_paths::FastGraph returned by prepare
    prepared,     \* number of calls of fast_paths::prepare
    calculators,  \* number of calls of fast_paths::create_calculator
    queries,      \* number of calls of PathCalculator::calc_path
    src,          \* source loop counter of the all-pairs driver
    dst,          \* destination loop counter of all_pairs_path_length
    res,          \* Vec<ShortestPathLength> of the driver
    output        \* the output file: opened, and the records written

vars == <<algorithm, readable, file, pc, nodes, i, successors, num_nodes,
          input_graph, fast_graph, prepared, calculators, queries, src, dst,
          res, output>>

\* ------------------------------------------------------------- bounds
MaxRows == 2

\* ------------------------------------------------------------- inputs
NodeIds == {0, 1, 2}
\* 0.5, 1.0 and 2.5, in halves
ValidWeights == {1, 2, 5}
\* -1.5, in halves
NegativeWeights == {-3}

Row(a, b, w) == [ok |-> TRUE, src |-> a, dst |-> b, weight |-> w]
Malformed == [ok |-> FALSE, src |-> 0, dst |-> 0, weight |-> 0]

ValidRows == {Row(a, b, w) : a \in NodeIds, b \in NodeIds, w \in ValidWeights}
AllRows == ValidRows
             \cup {Row(a, b, w) : a \in NodeIds, b \in NodeIds, w \in NegativeWeights}
             \cup {Malformed}

Files(rows) == UNION {[1..n -> rows] : n \in 0..MaxRows}

\* spec.md section 8, property 6: (0,1,1.0), (1,2,2.0), (0,2,5.0)
Scenario == <<Row(0, 1, 2), Row(1, 2, 4), Row(0, 2, 10)>>

\* ------------------------------------------------------------- helpers
Max(a, b) == IF a >= b THEN a ELSE b

Put(f, k, v) == [x \in (DOMAIN f) \cup {k} |-> IF x = k THEN v ELSE f[x]]

EmptyMap == [k \in {} |-> <<>>]

Perms(S) == {f \in [1..Cardinality(S) -> S] :
                \A a, b \in 1..Cardinality(S) : a # b => f[a] # f[b]}

\* `weight as usize`: a saturating, truncating cast
AsUsize(w) == IF w < 0 THEN 0 ELSE w \div 2

\* `length as f32`
AsF32(n) == 2 * n

\* ------------------------------------------------------------- ingestion
WeightedNodes(r) == [src |-> r.src, dst |-> r.dst, weight |-> r.weight]

read_weighted_nodes(can_read, rows) ==
    IF ~can_read \/ (\E k \in 1..Len(rows) : ~rows[k].ok)
    THEN [ok |-> FALSE, nodes |-> <<>>]
    ELSE [ok |-> TRUE, nodes |-> [k \in 1..Len(rows) |-> WeightedNodes(rows[k])]]

\* ------------------------------------------------------------- pathfinder.rs
\* insert, were it to keep one arc per neighbour
insertDedup(map, from, to, weight) ==
    IF from \in DOMAIN map
    THEN IF \E k \in 1..Len(map[from]) : map[from][k][1] = to
         THEN map
         ELSE [map EXCEPT ![from] = Append(@, <<to, AsUsize(weight)>>)]
    ELSE Put(map, from, <<<<to, AsUsize(weight)>>>>)

insert(map, from, to, weight) ==
    LET m1 == IF from \notin DOMAIN map THEN Put(map, from, <<>>) ELSE map
    IN  [m1 EXCEPT ![from] = Append(@, <<to, AsUsize(weight)>>)]

insert_both(map, node) ==
    insert(insert(map, node.src, node.dst, node.weight),
           node.dst, node.src, node.weight)

\* successors, were it to return the first arc of a node only
successorsFirstOnly(node, graph) ==
    IF node \in DOMAIN graph THEN SubSeq(graph[node], 1, 1) ELSE <<>>

\* fn successors: the arcs of a node, none for a node that is no key
get_successors(node, graph) ==
    IF node \in DOMAIN graph THEN graph[node] ELSE <<>>

\* the successor closure handed to a search, tabulated: the arcs it returns
\* for a node
ArcsAt(succs_of, node) == IF node \in DOMAIN succs_of THEN succs_of[node] ELSE <<>>

\* the successor loop of pathfinding's run_dijkstra
RECURSIVE relax(_, _, _, _, _)
relax(parents, to_see, succs, k, cost) ==
    IF k > Len(succs) THEN [parents |-> parents, to_see |-> to_see]
    ELSE LET successor == succs[k][1]
             new_cost == cost + succs[k][2]
         IN  IF successor \notin DOMAIN parents
             THEN relax(Put(parents, successor, new_cost),
                        to_see \cup {<<new_cost, successor>>}, succs, k + 1, cost)
             ELSE IF parents[successor] > new_cost
             THEN relax([parents EXCEPT ![successor] = new_cost],
                        to_see \cup {<<new_cost, successor>>}, succs, k + 1, cost)
             ELSE relax(parents, to_see, succs, k + 1, cost)

\* the heap loop of pathfinding's run_dijkstra: pop the cheapest entry, skip it
\* when stale, relax its successors
RECURSIVE run_dijkstra(_, _, _)
run_dijkstra(succs_of, parents, to_see) ==
    IF to_see = {} THEN parents
    ELSE LET top == CHOOSE x \in to_see : \A y \in to_see : x[1] <= y[1]
             rest == to_see \ {top}
         IN  IF top[1] > parents[top[2]]
             THEN run_dijkstra(succs_of, parents, rest)
             ELSE LET r == relax(parents, rest, ArcsAt(succs_of, top[2]), 1, top[1])
                  IN  run_dijkstra(succs_of, r.parents, r.to_see)

\* dijkstra_all: every reached node but the start, with its cost
dijkstra_all(start, succs_of) ==
    LET parents == run_dijkstra(succs_of, Put(EmptyMap, start, 0), {<<0, start>>})
    IN  [n \in (DOMAIN parents) \ {start} |-> parents[n]]

\* dijkstra_all(&src, |node| successors(node, self))
all_paths_for_node(graph, source) ==
    dijkstra_all(source, [n \in (DOMAIN graph) \cup {source} |-> get_successors(n, graph)])

ShortestPathLength(s, d, l) == [src |-> s, dst |-> d, length |-> l]

\* ------------------------------------------------------------- fast_paths
Edge(from, to, weight) == [from |-> from, to |-> to, weight |-> weight]

\* InputGraph::add_edge_bidir: loops and edges of weight < 1 are skipped
add_edge_bidir(g, from, to, weight) ==
    IF from = to \/ weight < 1 THEN g
    ELSE [g EXCEPT !.num_nodes = Max(@, Max(from, to) + 1),
                   !.edges = @ \o <<Edge(from, to, weight), Edge(to, from, weight)>>]

EdgeLess(a, b) ==
    \/ a.from < b.from
    \/ a.from = b.from /\ a.to < b.to
    \/ a.from = b.from /\ a.to = b.to /\ a.weight < b.weight

RECURSIVE InsertSorted(_, _)
InsertSorted(s, e) ==
    IF s = <<>> THEN <<e>>
    ELSE IF EdgeLess(e, Head(s)) THEN <<e>> \o s
    ELSE <<Head(s)>> \o InsertSorted(Tail(s), e)

RECURSIVE sort(_)
sort(s) == IF s = <<>> THEN <<>> ELSE InsertSorted(sort(Tail(s)), Head(s))

\* dedup_by(from, to) on the sorted edges: the first, cheapest, of each run stays
RECURSIVE remove_duplicate_edges(_)
remove_duplicate_edges(s) ==
    IF Len(s) <= 1 THEN s
    ELSE LET r == remove_duplicate_edges(SubSeq(s, 1, Len(s) - 1))
             last == r[Len(r)]
             e == s[Len(s)]
         IN  IF last.from = e.from /\ last.to = e.to THEN r ELSE Append(r, e)

\* InputGraph::freeze
freeze(g) == [g EXCEPT !.edges = remove_duplicate_edges(sort(@)), !.frozen = TRUE]

SeqRange(s) == {s[k] : k \in 1..Len(s)}

\* the cheapest edge of every (from, to) of a set of edges
Cheapest(E) ==
    {e \in E : \A f \in E : (f.from = e.from /\ f.to = e.to) => e.weight <= f.weight}

\* contraction of node v, then of the nodes after it: the edges of v to the
\* nodes not yet contracted go to the index, and every pair of them that has no
\* edge as cheap gets a shortcut
RECURSIVE Contract(_, _, _, _, _)
Contract(v, n, E, fwd, bwd) ==
    IF v >= n THEN [edges_fwd |-> fwd, edges_bwd |-> bwd]
    ELSE LET ins == {e \in E : e.to = v}
             outs == {e \in E : e.from = v}
             rest == E \ (ins \cup outs)
             shortcuts == {Edge(a.from, b.to, a.weight + b.weight) :
                              <<a, b>> \in {p \in ins \X outs : p[1].from # p[2].to}}
         IN  Contract(v + 1, n, Cheapest(rest \cup shortcuts), fwd \cup outs, bwd \cup ins)

\* fast_paths::prepare: the contraction hierarchy of a frozen input graph
prepare(g) ==
    LET h == Contract(0, g.num_nodes, SeqRange(g.edges), {}, {})
    IN  [num_nodes |-> g.num_nodes, edges_fwd |-> h.edges_fwd, edges_bwd |-> h.edges_bwd]

RECURSIVE SetToSeq(_)
SetToSeq(S) ==
    IF S = {} THEN <<>>
    ELSE LET x == CHOOSE y \in S : TRUE IN <<x>> \o SetToSeq(S \ {x})

\* the edges a search of the index follows from each node: upward edges from
\* their tail (forward search), downward edges from their head (backward search)
Upward(edges, backward) ==
    [n \in {IF backward THEN e.to ELSE e.from : e \in edges} |->
        SetToSeq({<<IF backward THEN e.from ELSE e.to, e.weight>> :
                     e \in {f \in edges : (IF backward THEN f.to ELSE f.from) = n}})]

\* PathCalculator::calc_path: the weight of the shortest path, or none
calc_path(graph, start, end) ==
    IF start = end THEN [some |-> TRUE, weight |-> 0]
    ELSE LET fwd == run_dijkstra(Upward(graph.edges_fwd, FALSE),
                                 Put(EmptyMap, start, 0), {<<0, start>>})
             bwd == run_dijkstra(Upward(graph.edges_bwd, TRUE),
                                 Put(EmptyMap, end, 0), {<<0, end>>})
             meet == (DOMAIN fwd) \cap (DOMAIN bwd)
         IN  IF meet = {} THEN [some |-> FALSE, weight |-> 0]
             ELSE [some |-> TRUE,
                   weight |-> LET m == CHOOSE x \in meet :
                                          \A y \in meet : fwd[x] + bwd[x] <= fwd[y] + bwd[y]
                              IN  fwd[m] + bwd[m]]

\* ------------------------------------------------------------- whole strategies
RECURSIVE InsertAll(_, _)
InsertAll(ns, k) == IF k = 0 THEN EmptyMap ELSE insert_both(InsertAll(ns, k - 1), ns[k])

into_pathfinder_graph(ns) ==
    LET s == InsertAll(ns, Len(ns))
    IN  [successors |-> s, num_nodes |-> Cardinality(DOMAIN s)]

\* the entries all_pairs_path_length_pathfinder pushes, in whatever order
all_pairs_path_length_pathfinder(graph) ==
    UNION {{ShortestPathLength(s, d, all_paths_for_node(graph.successors, s)[d]) :
               d \in DOMAIN all_paths_for_node(graph.successors, s)} :
           s \in 0..(graph.num_nodes - 1)}

RECURSIVE AddAll(_, _)
AddAll(ns, k) ==
    IF k = 0 THEN [edges |-> <<>>, num_nodes |-> 0, frozen |-> FALSE]
    ELSE add_edge_bidir(AddAll(ns, k - 1), ns[k].src, ns[k].dst, AsUsize(ns[k].weight))

into_input_graph(ns) == freeze(AddAll(ns, Len(ns)))

\* the entries all_pairs_path_length pushes
all_pairs_path_length(graph) ==
    {ShortestPathLength(q[1], q[2], calc_path(graph, q[1], q[2]).weight) :
        q \in {p \in (0..(graph.num_nodes - 1)) \X (0..(graph.num_nodes - 1)) :
                  calc_path(graph, p[1], p[2]).some}}

DirectResult(ns) == all_pairs_path_length_pathfinder(into_pathfinder_graph(ns))

PreprocessedResult(ns) == all_pairs_path_length(prepare(into_input_graph(ns)))

\* ------------------------------------------------------------- main.rs
\* the state main() starts in, whatever the arguments and the input file
Start ==
    /\ pc = "read"
    /\ nodes = <<>>
    /\ i = 1
    /\ successors = EmptyMap
    /\ num_nodes = 0
    /\ input_graph = [edges |-> <<>>, num_nodes |-> 0, frozen |-> FALSE]
    /\ fast_graph = [num_nodes |-> 0, edges_fwd |-> {}, edges_bwd |-> {}]
    /\ prepared = 0
    /\ calculators = 0
    /\ queries = 0
    /\ src = 0
    /\ dst = 0
    /\ res = <<>>
    /\ output = [opened |-> FALSE, records |-> <<>>]

Init ==
    /\ algorithm \in {"Dijkstra", "FastPath"}
    /\ readable \in BOOLEAN
    /\ file \in Files(AllRows)
    /\ Start

\* Read, were it to drop the rows that do not deserialize instead of panicking
ReadSkipMalformed ==
    /\ pc = "read"
    /\ readable
    /\ nodes' = [k \in 1..Len(SelectSeq(file, LAMBDA r : r.ok)) |->
                    WeightedNodes(SelectSeq(file, LAMBDA r : r.ok)[k])]
    /\ pc' = "build"
    /\ UNCHANGED <<algorithm, readable, file, i, successors, num_nodes, input_graph,
                   fast_graph, prepared, calculators, queries, src, dst, res, output>>

\* let nodes = read_weighted_nodes(&args.input): an unwrap panics on an
\* unreadable path and on the first row that does not deserialize
Read ==
    /\ pc = "read"
    /\ LET r == read_weighted_nodes(readable, file)
       IN  /\ nodes' = r.nodes
           /\ pc' = IF r.ok THEN "build" ELSE "aborted"
    /\ UNCHANGED <<algorithm, readable, file, i, successors, num_nodes, input_graph,
                   fast_graph, prepared, calculators, queries, src, dst, res, output>>

\* one iteration of the edge loop of into_pathfinder_graph
InsertEdge ==
    /\ pc = "build"
    /\ algorithm = "Dijkstra"
    /\ i <= Len(nodes)
    /\ successors' = insert_both(successors, nodes[i])
    /\ i' = i + 1
    /\ UNCHANGED <<algorithm, readable, file, pc, nodes, num_nodes, input_graph,
                   fast_graph, prepared, calculators, queries, src, dst, res, output>>

\* the end of into_pathfinder_graph: num_nodes = successors.keys().count()
FinishGraph ==
    /\ pc = "build"
    /\ algorithm = "Dijkstra"
    /\ i > Len(nodes)
    /\ num_nodes' = Cardinality(DOMAIN successors)
    /\ pc' = IF Cardinality(DOMAIN successors) > 0 THEN "paths" ELSE "write"
    /\ UNCHANGED <<algorithm, readable, file, nodes, i, successors, input_graph,
                   fast_graph, prepared, calculators, queries, src, dst, res, output>>

\* one iteration of the source loop of all_pairs_path_length_pathfinder; the
\* HashMap returned by all_paths_for_node is iterated in an unspecified order
PathsForSource ==
    /\ pc = "paths"
    /\ src < num_nodes
    /\ LET paths == all_paths_for_node(successors, src)
       IN  \E order \in Perms(DOMAIN paths) :
              res' = res \o [k \in 1..Len(order) |->
                                ShortestPathLength(src, order[k], paths[order[k]])]
    /\ src' = src + 1
    /\ pc' = IF src + 1 < num_nodes THEN "paths" ELSE "write"
    /\ UNCHANGED <<algorithm, readable, file, nodes, i, successors, num_nodes,
                   input_graph, fast_graph, prepared, calculators, queries, dst, output>>

\* write_shortest_paths: csv::Writer::from_path(output).unwrap(), then one
\* record per result
WriteShortestPaths ==
    /\ pc = "write"
    /\ \E can_write \in BOOLEAN :
          IF can_write
          THEN /\ output' = [opened |-> TRUE,
                             records |-> [k \in 1..Len(res) |->
                                 <<res[k].src, res[k].dst, AsF32(res[k].length)>>]]
               /\ pc' = "done"
          ELSE /\ output' = output
               /\ pc' = "aborted"
    /\ UNCHANGED <<algorithm, readable, file, nodes, i, successors, num_nodes,
                   input_graph, fast_graph, prepared, calculators, queries, src, dst, res>>

\* one iteration of the edge loop of into_input_graph
AddEdge ==
    /\ pc = "build"
    /\ algorithm = "FastPath"
    /\ i <= Len(nodes)
    /\ input_graph' = add_edge_bidir(input_graph, nodes[i].src, nodes[i].dst,
                                     AsUsize(nodes[i].weight))
    /\ i' = i + 1
    /\ UNCHANGED <<algorithm, readable, file, pc, nodes, successors, num_nodes,
                   fast_graph, prepared, calculators, queries, src, dst, res, output>>

\* the end of into_input_graph: input_graph.freeze()
Freeze ==
    /\ pc = "build"
    /\ algorithm = "FastPath"
    /\ i > Len(nodes)
    /\ input_graph' = freeze(input_graph)
    /\ pc' = "prepare"
    /\ UNCHANGED <<algorithm, readable, file, nodes, i, successors, num_nodes,
                   fast_graph, prepared, calculators, queries, src, dst, res, output>>

\* let fast_graph = fast_paths::prepare(&input_graph)
Prepare ==
    /\ pc = "prepare"
    /\ fast_graph' = prepare(input_graph)
    /\ prepared' = prepared + 1
    /\ pc' = "calculator"
    /\ UNCHANGED <<algorithm, readable, file, nodes, i, successors, num_nodes,
                   input_graph, calculators, queries, src, dst, res, output>>

\* the start of all_pairs_path_length: fast_paths::create_calculator(&graph)
CreateCalculator ==
    /\ pc = "calculator"
    /\ calculators' = calculators + 1
    /\ pc' = IF fast_graph.num_nodes > 0 THEN "query" ELSE "write"
    /\ UNCHANGED <<algorithm, readable, file, nodes, i, successors, num_nodes,
                   input_graph, fast_graph, prepared, queries, src, dst, res, output>>

\* Query, were the calculator created inside the loop
QueryNewCalculator ==
    /\ pc = "query"
    /\ calculators' = calculators + 1
    /\ queries' = queries + 1
    /\ LET path == calc_path(fast_graph, src, dst)
       IN  res' = IF path.some
                  THEN Append(res, ShortestPathLength(src, dst, path.weight))
                  ELSE res
    /\ dst' = IF dst + 1 < fast_graph.num_nodes THEN dst + 1 ELSE 0
    /\ src' = IF dst + 1 < fast_graph.num_nodes THEN src ELSE src + 1
    /\ pc' = IF dst + 1 < fast_graph.num_nodes \/ src + 1 < fast_graph.num_nodes
             THEN "query" ELSE "write"
    /\ UNCHANGED <<algorithm, readable, file, nodes, i, successors, num_nodes,
                   input_graph, fast_graph, prepared, output>>

\* one iteration of the destination loop of all_pairs_path_length
Query ==
    /\ pc = "query"
    /\ queries' = queries + 1
    /\ LET path == calc_path(fast_graph, src, dst)
       IN  res' = IF path.some
                  THEN Append(res, ShortestPathLength(src, dst, path.weight))
                  ELSE res
    /\ dst' = IF dst + 1 < fast_graph.num_nodes THEN dst + 1 ELSE 0
    /\ src' = IF dst + 1 < fast_graph.num_nodes THEN src ELSE src + 1
    /\ pc' = IF dst + 1 < fast_graph.num_nodes \/ src + 1 < fast_graph.num_nodes
             THEN "query" ELSE "write"
    /\ UNCHANGED <<algorithm, readable, file, nodes, i, successors, num_nodes,
                   input_graph, fast_graph, prepared, calculators, output>>

Next ==
    \/ Read
    \/ InsertEdge
    \/ FinishGraph
    \/ PathsForSource
    \/ AddEdge
    \/ Freeze
    \/ Prepare
    \/ CreateCalculator
    \/ Query
    \/ WriteShortestPaths

Spec == Init /\ [][Next]_vars

\* runs over the edge lists of the data model: a readable file of well-formed
\* rows with non-negative weights
InitValid ==
    /\ algorithm \in {"Dijkstra", "FastPath"}
    /\ readable = TRUE
    /\ file \in Files(ValidRows) \cup {Scenario}
    /\ Start

SpecValid == InitValid /\ [][Next]_vars

\* ------------------------------------------------------------- the graph of the edge list
\* node identifiers observed as an endpoint
Ids(ns) == {ns[k].src : k \in 1..Len(ns)} \cup {ns[k].dst : k \in 1..Len(ns)}

RECURSIVE Reach(_, _)
Reach(ns, S) ==
    LET T == S \cup {ns[k].dst : k \in {j \in 1..Len(ns) : ns[j].src \in S}}
                \cup {ns[k].src : k \in {j \in 1..Len(ns) : ns[j].dst \in S}}
    IN  IF T = S THEN S ELSE Reach(ns, T)

\* a path of edges joins a and b
Connected(ns, a, b) == b \in Reach(ns, {a})

Components(ns) == {Reach(ns, {a}) : a \in Ids(ns)}

HasEntry(R, a, b) == \E e \in R : e.src = a /\ e.dst = b

Floor(w) == w \div 2

MinOf(S) == CHOOSE x \in S : \A y \in S : x <= y

\* the triples <<from, to, cost>> of an adjacency map
MapArcs(map) ==
    UNION {{<<n, map[n][k][1], map[n][k][2]>> : k \in 1..Len(map[n])} : n \in DOMAIN map}

\* Bellman-Ford: k rounds of relaxing every arc; d holds the nodes reached
RECURSIVE Relaxed(_, _, _)
Relaxed(arcs, d, k) ==
    IF k = 0 THEN d
    ELSE LET from == {x \in arcs : x[1] \in DOMAIN d}
         IN  Relaxed(arcs,
                     [v \in (DOMAIN d) \cup {x[2] : x \in from} |->
                         MinOf((IF v \in DOMAIN d THEN {d[v]} ELSE {})
                               \cup {d[x[1]] + x[3] : x \in {y \in from : y[2] = v}})],
                     k - 1)

\* the minimum, over the paths from a to b, of the sum of the arc costs; -1
\* when there is no path
MinPathCost(map, a, b) ==
    LET arcs == MapArcs(map)
        d == Relaxed(arcs, [v \in {a} |-> 0], Cardinality(arcs) + 1)
    IN  IF b \in DOMAIN d THEN d[b] ELSE -1

Finished == pc = "done"

\* ------------------------------------------------------------- claims

\* C1: for every ordered pair (a,b) of distinct nodes joined by a path, the
\* Direct strategy and the Preprocessed strategy both emit an entry for (a,b),
\* and the two entries carry the same length.
C1_StrategiesAgree ==
    Finished =>
        LET mine == SeqRange(res)
            other == IF algorithm = "Dijkstra" THEN PreprocessedResult(nodes)
                     ELSE DirectResult(nodes)
        IN  \A a, b \in Ids(nodes) :
               (a # b /\ Connected(nodes, a, b)) =>
                  \E e \in mine : \E f \in other :
                     /\ e.src = a /\ e.dst = b
                     /\ f.src = a /\ f.dst = b
                     /\ e.length = f.length

\* C2: the result list holds an entry for an ordered pair (a,b) of distinct
\* observed nodes if and only if a path joins a and b, sparse identifiers
\* included.
C2_ReachabilityComplete ==
    Finished =>
        \A a, b \in Ids(nodes) :
           a # b => (HasEntry(SeqRange(res), a, b) <=> Connected(nodes, a, b))

\* C3: the result list never holds an entry with src = dst, and a graph of two
\* disjoint components of sizes m and n yields exactly m(m-1) + n(n-1) entries.
C3_NoSelfPairs ==
    /\ \A k \in 1..Len(res) : res[k].src # res[k].dst
    /\ Finished =>
          \A c1, c2 \in Components(nodes) :
             (c1 # c2 /\ Components(nodes) = {c1, c2}) =>
                Len(res) = Cardinality(c1) * (Cardinality(c1) - 1)
                           + Cardinality(c2) * (Cardinality(c2) - 1)

\* C4: whenever the result list holds (a,b,L) it also holds (b,a,L).
C4_Symmetric ==
    Finished =>
        \A k \in 1..Len(res) : \E j \in 1..Len(res) :
           /\ res[j].src = res[k].dst
           /\ res[j].dst = res[k].src
           /\ res[j].length = res[k].length

ScenarioDone == Finished /\ file = Scenario

\* C5: every length the Direct strategy emits is the minimum, over the paths
\* from src to dst in the built graph, of the sum of the arc costs; two
\* parallel edges give the smaller cost, and the scenario of spec.md 8.6 gives
\* length 3 for (0,2) and (2,0).
C5_DirectLengthsMinimal ==
    (algorithm = "Dijkstra" /\ Finished) =>
        /\ \A k \in 1..Len(res) :
              res[k].length = MinPathCost(successors, res[k].src, res[k].dst)
        /\ (Len(nodes) = 2 /\ {nodes[1].src, nodes[1].dst} = {nodes[2].src, nodes[2].dst}) =>
              \A k \in 1..Len(res) :
                 res[k].length = MinOf({Floor(nodes[1].weight), Floor(nodes[2].weight)})
        /\ file = Scenario =>
              /\ ShortestPathLength(0, 2, 3) \in SeqRange(res)
              /\ ShortestPathLength(2, 0, 3) \in SeqRange(res)

C5_Witness ==
    /\ ScenarioDone
    /\ ShortestPathLength(0, 2, 3) \in SeqRange(res)
    /\ MinPathCost(successors, 0, 2) = 3

\* number of elements of a sequence that satisfy Test
Count(s, Test(_)) == Cardinality({k \in 1..Len(s) : Test(s[k])})

\* C6: after the builder consumed the edges E, the adjacency map holds exactly
\* 2*|E| arcs: for each edge (a,b,w) an arc a->b and an arc b->a of cost
\* floor(w), parallel edges all retained.
C6_BuilderKeepsEveryArc ==
    (algorithm = "Dijkstra" /\ pc \in {"build", "paths"}) =>
    LET E == SubSeq(nodes, 1, i - 1)
        total == LET len[S \in SUBSET DOMAIN successors] ==
                         IF S = {} THEN 0
                         ELSE LET n == CHOOSE x \in S : TRUE
                              IN  Len(successors[n]) + len[S \ {n}]
                 IN  len[DOMAIN successors]
    IN  /\ total = 2 * Len(E)
        /\ DOMAIN successors = Ids(E)
        /\ \A x \in Ids(E) : \A y \in Ids(E) : \A c \in {Floor(E[k].weight) : k \in 1..Len(E)} :
              Count(successors[x], LAMBDA arc : arc = <<y, c>>)
                 = Count(E, LAMBDA e : e.src = x /\ e.dst = y /\ Floor(e.weight) = c)
                   + Count(E, LAMBDA e : e.dst = x /\ e.src = y /\ Floor(e.weight) = c)

C6_Witness ==
    /\ algorithm = "Dijkstra"
    /\ pc = "paths"
    /\ Len(nodes) = 2
    /\ nodes[1].src = nodes[2].src /\ nodes[1].dst = nodes[2].dst
    /\ nodes[1].src # nodes[1].dst
    /\ Floor(nodes[1].weight) # Floor(nodes[2].weight)
    /\ Len(successors[nodes[1].src]) = 2

\* the node count of the graph the chosen strategy built
BuiltNumNodes == IF algorithm = "Dijkstra" THEN num_nodes ELSE input_graph.num_nodes

Constructed ==
    \/ algorithm = "Dijkstra" /\ pc \in {"paths", "write", "done"}
    \/ algorithm = "FastPath" /\ pc \in {"prepare", "calculator", "query", "write", "done"}

\* C7: after graph construction numNodes is the number of distinct node
\* identifiers, and the indices [0, numNodes) the driver iterates are exactly
\* the observed nodes.
C7_DenseIndexing ==
    Constructed =>
        /\ BuiltNumNodes = Cardinality(Ids(nodes))
        /\ 0..(BuiltNumNodes - 1) = Ids(nodes)

HasNegativeWeight == \E k \in 1..Len(file) : file[k].ok /\ file[k].weight < 0

\* C8: an edge whose weight is negative (or above 2^32, a value the integers
\* of the model checker cannot hold, so only the negative half is stated)
\* never reaches the graph builder: the run aborts at ingestion and no arc is
\* created from it.
C8_InvalidWeightRejected ==
    (HasNegativeWeight /\ pc # "read") =>
        /\ pc = "aborted"
        /\ i = 1
        /\ successors = EmptyMap
        /\ input_graph.edges = <<>>

IngestionError == ~readable \/ (\E k \in 1..Len(file) : ~file[k].ok)

\* C9: when the input path is unreadable or a row is malformed the run aborts
\* before any graph is built, before any query, and before the output file is
\* opened or a record written; no partial parse is surfaced.
C9_IngestionErrorsFatal ==
    IngestionError =>
        /\ pc \in {"read", "aborted"}
        /\ nodes = <<>>
        /\ i = 1
        /\ successors = EmptyMap
        /\ input_graph = [edges |-> <<>>, num_nodes |-> 0, frozen |-> FALSE]
        /\ prepared = 0 /\ calculators = 0 /\ queries = 0
        /\ res = <<>>
        /\ output = [opened |-> FALSE, records |-> <<>>]

C9_Witness ==
    /\ pc = "aborted"
    /\ readable
    /\ Len(file) = 2
    /\ file[1].ok
    /\ ~file[2].ok

\* C10: in a Preprocessed run all edges are inserted, the input graph is
\* frozen, the index is prepared exactly once and one calculator is created
\* before the first query; from the first query on no edge is inserted, the
\* index is not rebuilt and stays unchanged, and no second calculator is made.
C10_PreprocessedOrder ==
    /\ [](/\ input_graph.frozen => i = Len(nodes) + 1
          /\ prepared > 0 => (input_graph.frozen /\ prepared = 1)
          /\ calculators > 0 => (prepared = 1 /\ calculators = 1)
          /\ queries > 0 => (calculators = 1 /\ fast_graph = prepare(input_graph)))
    /\ [][queries > 0 =>
            /\ i' = i
            /\ input_graph' = input_graph
            /\ fast_graph' = fast_graph
            /\ prepared' = prepared
            /\ calculators' = calculators]_vars

C10_Witness ==
    /\ pc = "query"
    /\ queries >= 2
    /\ fast_graph.edges_fwd # {}

====
